---- MODULE Spec2Model ----
(***************************************************************************)
(* A model of the cuculiform cuckoo filter (src/src/cuculiform.h, the      *)
(* flat-buffer variant with partial-key hashing and bounded relocation).   *)
(*                                                                         *)
(* The backing buffer m_data is modelled byte by byte, indexed from 0 as   *)
(* in the source.  A Bucket is a view [begin, end) of byte offsets into    *)
(* it; the chunked iterators are modelled by chunk indexes relative to the *)
(* view's begin.  Bytes behind the end of the buffer do not belong to the  *)
(* filter: a read of them may yield any of the contents in Heaps.          *)
(***************************************************************************)
EXTENDS Integers, Naturals, Sequences, FiniteSets, TLC

\* ------------------------------------------------------------------ bounds
\* the constructor's max_relocations argument ranges over 0..MaxRelocations
MaxRelocations == 2
\* number of mutating operations in one behaviour
MaxOps == 5

\* the items whose triple is derived in SpecAlt are 0..MaxProbeItem
MaxProbeItem == 7

\* the capacities passed to the constructor in SpecCtor are 0..MaxCapacity
MaxCapacity == 17
\* the arguments of ceil_to_power_of_two in SpecCtor are 0..MaxCeilArg and
\* the values of SampleCeilArgs
MaxCeilArg == 33

\* number of Bucket calls in one behaviour of SpecBucket
MaxBucketOps == 6

\* number of calls made on the filled filter in one behaviour of SpecFull
MaxFullOps == 1

\* number of calls in a behaviour that also calls contains
MaxQueryOps == 4

\* the linear values passed to into_bytes in SpecCodec are 0..MaxCodecLinear
\* and the values of CodecLinears
MaxCodecLinear == 300

\* the items passed to insert, erase and contains.  With the strong hash
\* below, items 0 and 1 share the fingerprint 1 and have a single candidate
\* bucket each (bucket 0 and bucket 1 of a two-bucket filter, the same bucket
\* of a one-bucket filter); item 2 has another fingerprint, whose two
\* candidate buckets differ in a two-bucket filter.
Items == {0, 1, 2}
\* capacities passed to the constructor (both are multiples of bucket_size
\* whose quotient is a power of two, so that the buffer covers every bucket)
Capacities == {4, 8}
FingerprintSizes == 1..4
\* linear values of the fingerprint-sized words found behind the buffer
HeapFills == {0, 1}
\* capacities and linear fingerprint values used to probe get_alt_index
AltCapacities == {4, 8, 16, 32}
SampleLinears == {1, 2, 3, 33, 255, 8450, 65535, 2163204, 553780230}

\* --------------------------------------------------------------- bit helpers
\* 2^n for n in 0..30
Pow2Table ==
  << 1, 2, 4, 8, 16, 32, 64, 128, 256, 512, 1024, 2048, 4096, 8192, 16384,
     32768, 65536, 131072, 262144, 524288, 1048576, 2097152, 4194304,
     8388608, 16777216, 33554432, 67108864, 134217728, 268435456, 536870912,
     1073741824 >>
Pow2(n) == Pow2Table[n + 1]

\* x >> n on an unsigned value below 2^31 (a shift by 31 or more leaves 0)
ShiftRight(x, n) == IF n >= 31 THEN 0 ELSE x \div Pow2(n)

RECURSIVE BitOr(_, _)
BitOr(a, b) ==
  IF a = 0 THEN b
  ELSE IF b = 0 THEN a
  ELSE (IF a % 2 = 1 \/ b % 2 = 1 THEN 1 ELSE 0)
       + 2 * BitOr(a \div 2, b \div 2)

RECURSIVE BitXor(_, _)
BitXor(a, b) ==
  IF a = 0 THEN b
  ELSE IF b = 0 THEN a
  ELSE (((a % 2) + (b % 2)) % 2) + 2 * BitXor(a \div 2, b \div 2)

\* ------------------------------------------------------------ pure functions
\* ceil_to_power_of_two: v-- wraps to 2^64-1 for v = 0, the or-shift ladder
\* keeps all ones, v++ wraps to 0 and v += (v == 0) yields 1.  For v >= 1 the
\* ladder smears the highest set bit of v-1 downwards.
SmearStep(v, k) == BitOr(v, ShiftRight(v, k))

\* faulty variant: the leading v-- is missing
ceil_to_power_of_two_no_decrement(v) ==
  LET v1 == SmearStep(v, 1)
      v2 == SmearStep(v1, 2)
      v3 == SmearStep(v2, 4)
      v4 == SmearStep(v3, 8)
      v5 == SmearStep(v4, 16)
      v6 == SmearStep(v5, 32)
      v7 == v6 + 1
  IN  v7 + (IF v7 = 0 THEN 1 ELSE 0)

ceil_to_power_of_two(v) ==
  IF v = 0 THEN 1
  ELSE LET v0 == v - 1
           v1 == SmearStep(v0, 1)
           v2 == SmearStep(v1, 2)
           v3 == SmearStep(v2, 4)
           v4 == SmearStep(v3, 8)
           v5 == SmearStep(v4, 16)
           v6 == SmearStep(v5, 32)
           v7 == v6 + 1
       IN  v7 + (IF v7 = 0 THEN 1 ELSE 0)

\* from_bytes: linear |= vec[i] << i * 8, for i = 0 .. size-1
RECURSIVE from_bytes_loop(_, _, _)
from_bytes_loop(vec, i, linear) ==
  IF i >= Len(vec) THEN linear
  ELSE from_bytes_loop(vec, i + 1, BitOr(linear, vec[i + 1] * Pow2(i * 8)))
from_bytes(vec) == from_bytes_loop(vec, 0, 0)

\* faulty variant: the most significant byte comes first
into_bytes_big_endian(linear, num_bytes) ==
  [i \in 1..num_bytes |-> ShiftRight(linear, (num_bytes - i) * 8) % 256]

\* into_bytes: vec[i] = static_cast<uint8_t>(linear >> i * 8)
into_bytes(linear, num_bytes) ==
  [i \in 1..num_bytes |-> ShiftRight(linear, (i - 1) * 8) % 256]

\* ---------------------------------------------------------- hash capabilities
\* std::hash<T> for an integral T: the identity (libstdc++).
weak_hash_fn(item) == item

\* The strong hash is injected into the constructor; the model plugs in one
\* deterministic function.  Its 64-bit result is kept as its two 32-bit
\* halves, each below 2^31.  Small arguments are tabulated, every other
\* argument is hashed to the sum of its bytes.
HashTable ==
  << [hi |-> 0, lo |-> 0],              \* 0
     [hi |-> 1, lo |-> 0],              \* 1
     [hi |-> 0, lo |-> 553780230],      \* 2 : lo = 0x21020406
     [hi |-> 0, lo |-> 270544960] >>    \* 3 : lo = 0x10203040

RECURSIVE ByteSum(_)
ByteSum(x) == IF x = 0 THEN 0 ELSE (x % 256) + ByteSum(x \div 256)

m_strong_hash_fn(value) ==
  IF value + 1 \in DOMAIN HashTable
    THEN HashTable[value + 1]
    ELSE [hi |-> 0, lo |-> ByteSum(value)]

\* ----------------------------------------------------------------- state
VARIABLES
  m_capacity,          \* constructor argument capacity
  m_bucket_count,      \* ceil_to_power_of_two(m_capacity / m_bucket_size)
  m_fingerprint_size,  \* constructor argument fingerprint_size
  m_max_relocations,   \* constructor argument max_relocations
  m_data,              \* the backing buffer, byte offset -> byte
  m_size,              \* live item count
  last,                \* the last mutating call, its result and its cascade
  owed,                \* class -> successful inserts not yet removed again
  inserted,            \* items passed to insert since the last clear
  net_ok,              \* calls since the last clear: inserts that returned
                       \* true minus erases that returned true
  ops,                 \* number of mutating calls so far
  calc                 \* the last evaluation of a pure function, if any

vars == << m_capacity, m_bucket_count, m_fingerprint_size, m_max_relocations,
           m_data, m_size, last, owed, inserted, net_ok, ops,
           calc >>

config == << m_capacity, m_bucket_count, m_fingerprint_size,
             m_max_relocations >>

\* bucket_size is the constant 4 set in the constructor's initializer list
m_bucket_size == 4

\* length of m_data in bytes
DataLen == m_capacity * m_fingerprint_size

\* one past the last byte offset any bucket view can reach
MemLimit ==
  LET reach == (m_bucket_count - 1) * m_bucket_size * m_fingerprint_size
               + m_bucket_size * m_fingerprint_size * m_fingerprint_size
  IN  IF reach > DataLen THEN reach ELSE DataLen

\* The bytes behind the end of m_data do not belong to the filter; a read
\* of them yields whatever is stored there.  Heaps is the set of contents
\* considered: every fingerprint-sized word behind the buffer holds the same
\* linear value fill.
Heap(fill) ==
  LET word == into_bytes(fill, m_fingerprint_size)
  IN  [i \in DataLen..(MemLimit - 1) |-> word[(i % m_fingerprint_size) + 1]]
Heaps == {Heap(fill) : fill \in HeapFills}

\* ---------------------------------------------------------------- Bucket
\* get_bucket: the view of bucket index
get_bucket(index) ==
  [m_begin |-> index * m_bucket_size * m_fingerprint_size,
   m_end   |-> (index + 1) * m_bucket_size * m_fingerprint_size]

\* chunk index of Bucket::begin() / end() / cbegin() / cend()
BucketBegin(b) == 0
BucketEnd(b)   == (b.m_end - b.m_begin) \div m_fingerprint_size
BucketCBegin(b) == 0
BucketCEnd(b)   == b.m_end - b.m_begin

\* the n bytes of mem from offset off on
RECURSIVE ReadBytes(_, _, _)
ReadBytes(mem, off, n) ==
  IF n = 0 THEN << >>
  ELSE Append(ReadBytes(mem, off, n - 1), mem[off + n - 1])

\* ChunkedIterator::operator*: the chunk_size bytes of chunk k
Chunk(mem, b, k) ==
  ReadBytes(mem, b.m_begin + k * m_fingerprint_size, m_fingerprint_size)

\* Chunk::operator==: std::equal over the bytes of chunk k
ChunkEquals(mem, b, k, value) ==
  \A j \in 1..m_fingerprint_size :
     mem[b.m_begin + k * m_fingerprint_size + (j - 1)] = value[j]

\* std::find over chunk indexes [first, lst): the first chunk equal to value,
\* lst when there is none
RECURSIVE Find(_, _, _, _, _)
Find(mem, b, first, lst, value) ==
  IF first >= lst THEN lst
  ELSE IF ChunkEquals(mem, b, first, value) THEN first
  ELSE Find(mem, b, first + 1, lst, value)

\* std::copy / std::fill / std::swap_ranges: bytes j.. of the range at off
RECURSIVE WriteBytes(_, _, _, _)
WriteBytes(mem, off, bytes, j) ==
  IF j > Len(bytes) THEN mem
  ELSE WriteBytes([mem EXCEPT ![off + j - 1] = bytes[j]], off, bytes, j + 1)

WriteChunk(mem, b, k, bytes) ==
  WriteBytes(mem, b.m_begin + k * m_fingerprint_size, bytes, 1)

empty_fingerprint == [j \in 1..m_fingerprint_size |-> 0]

\* faulty variant: the last slot of the bucket is never searched
Bucket_insert_three(mem, b, fingerprint) ==
  LET lst == BucketEnd(b) - 1
      position == Find(mem, b, BucketBegin(b), lst, empty_fingerprint)
  IN  [ok  |-> position # lst,
       mem |-> IF position # lst
                 THEN WriteChunk(mem, b, position, fingerprint) ELSE mem]

Bucket_insert(mem, b, fingerprint) ==
  LET position == Find(mem, b, BucketBegin(b), BucketEnd(b), empty_fingerprint)
      has_empty_position == position # BucketEnd(b)
  IN  [ok  |-> has_empty_position,
       mem |-> IF has_empty_position
                 THEN WriteChunk(mem, b, position, fingerprint) ELSE mem]

\* faulty variant: the slot's fingerprint is handed out but the incoming fingerprint
\* is not written into the slot
Bucket_swap_no_writeback(mem, b, fingerprint, index) ==
  [fingerprint |-> Chunk(mem, b, BucketBegin(b) + index),
   mem         |-> mem]

\* faulty variant: the incoming fingerprint is written into the first slot instead
\* of the slot that is handed out
Bucket_swap_wrong_slot(mem, b, fingerprint, index) ==
  [fingerprint |-> Chunk(mem, b, BucketBegin(b) + index),
   mem         |-> WriteChunk(mem, b, BucketBegin(b), fingerprint)]

Bucket_swap(mem, b, fingerprint, index) ==
  [fingerprint |-> Chunk(mem, b, BucketBegin(b) + index),
   mem         |-> WriteChunk(mem, b, BucketBegin(b) + index, fingerprint)]

Bucket_contains(mem, b, fingerprint) ==
  Find(mem, b, BucketCBegin(b), BucketCEnd(b), fingerprint) # BucketCEnd(b)

\* faulty variant: the slot found is reported but not zeroed
Bucket_erase_no_fill(mem, b, fingerprint) ==
  LET position == Find(mem, b, BucketBegin(b), BucketEnd(b), fingerprint)
  IN  [ok |-> position # BucketEnd(b), mem |-> mem]

\* faulty variant: every slot holding the fingerprint is cleared
Bucket_erase_all_copies(mem, b, fingerprint) ==
  LET position == Find(mem, b, BucketBegin(b), BucketEnd(b), fingerprint)
      has_fingerprint == position # BucketEnd(b)
  IN  [ok  |-> has_fingerprint,
       mem |-> [a \in DOMAIN mem |->
                  IF /\ a \in b.m_begin..(b.m_end - 1)
                     /\ ChunkEquals(mem, b,
                                    (a - b.m_begin) \div m_fingerprint_size,
                                    fingerprint)
                    THEN 0 ELSE mem[a]]]

Bucket_erase(mem, b, fingerprint) ==
  LET position == Find(mem, b, BucketBegin(b), BucketEnd(b), fingerprint)
      has_fingerprint == position # BucketEnd(b)
  IN  [ok  |-> has_fingerprint,
       mem |-> IF has_fingerprint
                 THEN WriteChunk(mem, b, position, empty_fingerprint) ELSE mem]

\* ------------------------------------------------------------ CuckooFilter
\* faulty variant: the hash is not reduced modulo m_bucket_count
get_alt_index_unreduced(index, fingerprint) ==
  BitXor(index, m_strong_hash_fn(from_bytes(fingerprint)).lo)

\* faulty variant: the hash of the fingerprint is or-ed into the index
get_alt_index_or(index, fingerprint) ==
  BitOr(index,
        m_strong_hash_fn(from_bytes(fingerprint)).lo % m_bucket_count)

get_alt_index(index, fingerprint) ==
  LET fingerprint_linear == from_bytes(fingerprint)
  IN  BitXor(index,
             m_strong_hash_fn(fingerprint_linear).lo % m_bucket_count)

\* faulty variant: a zero fingerprint is not replaced by 1
get_indexes_and_fingerprint_for_no_remap(item) ==
  LET hash == m_strong_hash_fn(weak_hash_fn(item))
      fingerprint == ShiftRight(hash.lo, 32 - m_fingerprint_size * 8)
      fingerprint_vec == into_bytes(fingerprint, m_fingerprint_size)
      index == hash.hi % m_bucket_count
  IN  [index       |-> index,
       alt_index   |-> get_alt_index(index, fingerprint_vec),
       fingerprint |-> fingerprint_vec]

get_indexes_and_fingerprint_for(item) ==
  LET hash == m_strong_hash_fn(weak_hash_fn(item))
      fingerprint_part == hash.lo
      index_part == hash.hi
      shifted == ShiftRight(fingerprint_part, 32 - m_fingerprint_size * 8)
      fingerprint == IF shifted = 0 THEN 1 ELSE shifted
      fingerprint_vec == into_bytes(fingerprint, m_fingerprint_size)
      index == index_part % m_bucket_count
  IN  [index       |-> index,
       alt_index   |-> get_alt_index(index, fingerprint_vec),
       fingerprint |-> fingerprint_vec]

\* faulty variant: the loop runs while i <= m_max_relocations
RECURSIVE Relocate_one_more(_, _, _, _, _)
Relocate_one_more(mem, index_to_insert, fp_to_insert, i, trace) ==
  IF i > m_max_relocations
    THEN {[ret |-> FALSE, mem |-> mem, hand |-> fp_to_insert,
           trace |-> trace]}
    ELSE
      LET bucket == get_bucket(index_to_insert)
          r == Bucket_insert(mem, bucket, fp_to_insert)
      IN  IF r.ok
            THEN {[ret |-> TRUE, mem |-> r.mem, hand |-> fp_to_insert,
                   trace |-> Append(trace, [bucket |-> index_to_insert,
                                            fp |-> fp_to_insert,
                                            ok |-> TRUE, swapped |-> FALSE])]}
            ELSE UNION {
              LET s == Bucket_swap(mem, bucket, fp_to_insert, victim)
              IN  Relocate_one_more(
                    s.mem, get_alt_index(index_to_insert, s.fingerprint),
                    s.fingerprint, i + 1,
                    Append(trace, [bucket |-> index_to_insert,
                                   fp |-> fp_to_insert, ok |-> FALSE,
                                   swapped |-> TRUE]))
              : victim \in 0..(m_bucket_size - 1) }

\* faulty variant: after a swap the cascade goes on in the next bucket instead of the
\* alternate bucket of the fingerprint in hand
RECURSIVE Relocate_next_bucket(_, _, _, _, _)
Relocate_next_bucket(mem, index_to_insert, fp_to_insert, i, trace) ==
  IF i >= m_max_relocations
    THEN {[ret |-> FALSE, mem |-> mem, hand |-> fp_to_insert,
           trace |-> trace]}
    ELSE
      LET bucket == get_bucket(index_to_insert)
          r == Bucket_insert(mem, bucket, fp_to_insert)
      IN  IF r.ok
            THEN {[ret |-> TRUE, mem |-> r.mem, hand |-> fp_to_insert,
                   trace |-> Append(trace, [bucket |-> index_to_insert,
                                            fp |-> fp_to_insert,
                                            ok |-> TRUE, swapped |-> FALSE])]}
            ELSE UNION {
              LET s == Bucket_swap(mem, bucket, fp_to_insert, victim)
              IN  Relocate_next_bucket(
                    s.mem, (index_to_insert + 1) % m_bucket_count,
                    s.fingerprint, i + 1,
                    Append(trace, [bucket |-> index_to_insert,
                                   fp |-> fp_to_insert, ok |-> FALSE,
                                   swapped |-> TRUE]))
              : victim \in 0..(m_bucket_size - 1) }

\* the relocation loop of insert, from iteration i on: the set of outcomes
\* over the values bucket_dis(gen) can yield in each iteration that draws one
RECURSIVE Relocate(_, _, _, _, _)
Relocate(mem, index_to_insert, fp_to_insert, i, trace) ==
  IF i >= m_max_relocations
    THEN {[ret |-> FALSE, mem |-> mem, hand |-> fp_to_insert,
           trace |-> trace]}
    ELSE
      LET bucket == get_bucket(index_to_insert)
          r == Bucket_insert(mem, bucket, fp_to_insert)
      IN  IF r.ok
            THEN {[ret |-> TRUE, mem |-> r.mem, hand |-> fp_to_insert,
                   trace |-> Append(trace, [bucket |-> index_to_insert,
                                            fp |-> fp_to_insert,
                                            ok |-> TRUE, swapped |-> FALSE])]}
            ELSE UNION {
              LET s == Bucket_swap(mem, bucket, fp_to_insert,
                                   which_fingerprint_to_relocate)
              IN  Relocate(s.mem,
                           get_alt_index(index_to_insert, s.fingerprint),
                           s.fingerprint, i + 1,
                           Append(trace,
                                  [bucket |-> index_to_insert,
                                   fp |-> fp_to_insert, ok |-> FALSE,
                                   swapped |-> TRUE]))
              : which_fingerprint_to_relocate \in 0..(m_bucket_size - 1) }

\* faulty variant: after a refused direct insert the loop starts in the same
\* bucket instead of the other candidate bucket
insert_same_bucket(mem, item) ==
  LET t == get_indexes_and_fingerprint_for(item)
  IN  UNION {
        LET index_to_insert == IF coin # 0 THEN t.index ELSE t.alt_index
            r == Bucket_insert(mem, get_bucket(index_to_insert),
                               t.fingerprint)
            first == [bucket |-> index_to_insert, fp |-> t.fingerprint,
                      ok |-> r.ok, swapped |-> FALSE]
        IN  IF r.ok
              THEN {[ret |-> TRUE, mem |-> r.mem, hand |-> t.fingerprint,
                     trace |-> << first >>]}
              ELSE Relocate(mem, index_to_insert, t.fingerprint, 0,
                            << first >>)
        : coin \in 0..1 }

\* CuckooFilter::insert: the set of outcomes over the values index_dis(gen)
\* and bucket_dis(gen) can yield
insert(mem, item) ==
  LET t == get_indexes_and_fingerprint_for(item)
  IN  UNION {
        LET index_to_insert == IF coin # 0 THEN t.index ELSE t.alt_index
            r == Bucket_insert(mem, get_bucket(index_to_insert),
                               t.fingerprint)
            first == [bucket |-> index_to_insert, fp |-> t.fingerprint,
                      ok |-> r.ok, swapped |-> FALSE]
        IN  IF r.ok
              THEN {[ret |-> TRUE, mem |-> r.mem, hand |-> t.fingerprint,
                     trace |-> << first >>]}
              ELSE Relocate(mem,
                            get_alt_index(index_to_insert, t.fingerprint),
                            t.fingerprint, 0, << first >>)
        : coin \in 0..1 }

\* CuckooFilter::contains after the triple t is derived, on the memory mem
contains_triple(mem, t) ==
  \/ Bucket_contains(mem, get_bucket(t.index), t.fingerprint)
  \/ Bucket_contains(mem, get_bucket(t.alt_index), t.fingerprint)

\* CuckooFilter::contains on the buffer data, reading h behind its end
contains_in(data, h, item) ==
  contains_triple(data @@ h, get_indexes_and_fingerprint_for(item))

\* the values contains(item) can return on the buffer data
contains_on(data, item) ==
  LET t == get_indexes_and_fingerprint_for(item)
  IN  {contains_triple(data @@ h, t) : h \in Heaps}

\* the values contains(item) can return in the current state
contains(item) == contains_on(m_data, item)

\* faulty variant: the alternate bucket is tried before the primary bucket
erase_alt_first(mem, item) ==
  LET t == get_indexes_and_fingerprint_for(item)
      e1 == Bucket_erase(mem, get_bucket(t.index), t.fingerprint)
      e2 == Bucket_erase(mem, get_bucket(t.alt_index), t.fingerprint)
  IN  IF e2.ok THEN e2 ELSE e1

\* CuckooFilter::erase
erase(mem, item) ==
  LET t == get_indexes_and_fingerprint_for(item)
      e1 == Bucket_erase(mem, get_bucket(t.index), t.fingerprint)
      e2 == Bucket_erase(mem, get_bucket(t.alt_index), t.fingerprint)
  IN  IF e1.ok THEN e1 ELSE e2

\* faulty variant: a successful erase leaves the count alone
size_after_erase_kept(size, erased) == size

\* faulty variant: m_size++ also when insert returns false
size_after_insert_always(size, inserted_ok) == size + 1

\* faulty variant: m_size-- also when erase returns false
size_after_erase_always(size, erased) == size - 1

\* the size updates of insert (m_size++ before each return true) and of
\* erase (m_size-- when erased)
size_after_insert(size, inserted_ok) ==
  IF inserted_ok THEN size + 1 ELSE size
size_after_erase(size, erased) ==
  IF erased THEN size - 1 ELSE size

\* ------------------------------------------------------- bookkeeping helpers
Min(a, b) == IF a <= b THEN a ELSE b

\* a stored fingerprint together with its pair of candidate buckets
ClassOf(bucket, fingerprint) ==
  << fingerprint, Min(bucket, get_alt_index(bucket, fingerprint)) >>

ItemClass(item) ==
  LET t == get_indexes_and_fingerprint_for(item)
  IN  ClassOf(t.index, t.fingerprint)

Credit(f, c) == IF c \in DOMAIN f THEN [f EXCEPT ![c] = @ + 1] ELSE f
Debit(f, c) ==
  IF c \in DOMAIN f /\ f[c] > 0 THEN [f EXCEPT ![c] = @ - 1] ELSE f

\* number of insert attempts of a cascade that ended in a swap
Swaps(trace) == Cardinality({k \in 1..Len(trace) : trace[k].swapped})

NoCall == [op |-> "none", item |-> 0, ret |-> FALSE, hand |-> << >>,
           trace |-> << >>]
NoCalc == [op |-> "none"]

\* ------------------------------------------------------------------ actions
\* the constructor
Construct(capacity, fingerprint_size, max_relocations) ==
  /\ m_capacity = capacity
  /\ m_fingerprint_size = fingerprint_size
  /\ m_max_relocations = max_relocations
  /\ m_bucket_count = ceil_to_power_of_two(capacity \div m_bucket_size)
  /\ m_size = 0
  /\ m_data = [i \in 0..(capacity * fingerprint_size - 1) |-> 0]
  /\ last = NoCall
  /\ owed = [c \in {ItemClass(x) : x \in Items} |-> 0]
  /\ inserted = {}
  /\ net_ok = 0
  /\ ops = 0
  /\ calc = NoCalc

Init ==
  \E capacity \in Capacities, fingerprint_size \in FingerprintSizes,
     max_relocations \in 0..MaxRelocations :
       Construct(capacity, fingerprint_size, max_relocations)

Insert(item) ==
  /\ ops < MaxOps
  /\ \E r \in insert(m_data, item) :
       LET evicted_from == r.trace[Len(r.trace)].bucket
       IN  /\ m_data' = r.mem
           /\ m_size' = size_after_insert(m_size, r.ret)
           /\ last' = [op |-> "insert", item |-> item, ret |-> r.ret,
                       hand |-> r.hand, trace |-> r.trace]
           /\ owed' = IF r.ret THEN Credit(owed, ItemClass(item))
                      ELSE IF Swaps(r.trace) > 0
                        THEN Debit(owed, ClassOf(evicted_from, r.hand))
                        ELSE owed
           /\ net_ok' = IF r.ret THEN net_ok + 1 ELSE net_ok
  /\ inserted' = inserted \cup {item}
  /\ ops' = ops + 1
  /\ UNCHANGED << config, calc >>

Erase(item) ==
  /\ ops < MaxOps
  /\ LET r == erase(m_data, item)
     IN  /\ m_data' = r.mem
         /\ m_size' = size_after_erase(m_size, r.ok)
         /\ last' = [op |-> "erase", item |-> item, ret |-> r.ok,
                     hand |-> << >>, trace |-> << >>]
         /\ owed' = IF r.ok THEN Debit(owed, ItemClass(item)) ELSE owed
         /\ net_ok' = IF r.ok THEN net_ok - 1 ELSE net_ok
  /\ ops' = ops + 1
  /\ UNCHANGED << config, inserted, calc >>

Clear ==
  /\ ops < MaxOps
  /\ m_data' = [i \in DOMAIN m_data |-> 0]
  /\ m_size' = 0
  /\ last' = [op |-> "clear", item |-> 0, ret |-> FALSE, hand |-> << >>,
              trace |-> << >>]
  /\ owed' = [c \in DOMAIN owed |-> 0]
  /\ inserted' = {}
  /\ net_ok' = 0
  /\ ops' = ops + 1
  /\ UNCHANGED << config, calc >>

Next ==
  \/ \E item \in Items : Insert(item)
  \/ \E item \in Items : Erase(item)
  \/ Clear

Spec == Init /\ [][Next]_vars

\* faulty variant: a default of several hundred relocations
DefaultMaxRelocations_hundreds == 5 * 100

\* -------------------------------------------- evaluating the index functions
\* the default value of the constructor's max_relocations parameter
DefaultMaxRelocations == 10

\* the nonzero fingerprints of the filter's width among the sample values
SampleFingerprints ==
  {into_bytes(v, m_fingerprint_size) :
     v \in {w \in SampleLinears :
              m_fingerprint_size = 4 \/ w < Pow2(8 * m_fingerprint_size)}}

InitAlt ==
  \E capacity \in AltCapacities, fingerprint_size \in FingerprintSizes :
     Construct(capacity, fingerprint_size, DefaultMaxRelocations)

\* get_alt_index applied to a bucket index and a fingerprint, and again to
\* its own result
ProbeAlt(index, fingerprint) ==
  /\ calc' = [op |-> "alt", index |-> index, fingerprint |-> fingerprint,
              alt |-> get_alt_index(index, fingerprint),
              back |-> get_alt_index(get_alt_index(index, fingerprint),
                                     fingerprint)]
  /\ UNCHANGED << config, m_data, m_size, last, owed, inserted, net_ok, ops >>

\* get_indexes_and_fingerprint_for applied to an item, and get_alt_index
\* applied to both indexes of the triple
ProbeDerive(item) ==
  /\ LET t == get_indexes_and_fingerprint_for(item)
     IN  calc' = [op |-> "derive", item |-> item, index |-> t.index,
                  alt_index |-> t.alt_index, fingerprint |-> t.fingerprint,
                  alt_of_index |-> get_alt_index(t.index, t.fingerprint),
                  alt_of_alt |-> get_alt_index(t.alt_index, t.fingerprint)]
  /\ UNCHANGED << config, m_data, m_size, last, owed, inserted, net_ok, ops >>

NextAlt ==
  \/ \E index \in 0..(m_bucket_count - 1), fingerprint \in SampleFingerprints :
       ProbeAlt(index, fingerprint)
  \/ \E item \in 0..MaxProbeItem : ProbeDerive(item)

SpecAlt == InitAlt /\ [][NextAlt]_vars

\* --------------------------------------------------- the constructor alone
\* the fingerprint_size arguments passed to the constructor, those its
\* assertions reject included
CtorFingerprintSizes == 0..5

\* arguments of ceil_to_power_of_two around larger powers of two
SampleCeilArgs ==
  {255, 256, 257, 65535, 65536, 65537, 1073741823, 1073741824}

\* CuckooFilter::CuckooFilter: the object a constructor call yields.  The
\* member initialisers run first, then the two assertions on
\* m_fingerprint_size, then the buffer is allocated.  checked tells whether
\* the assertions are compiled in (NDEBUG not defined); a failing assertion
\* aborts the program before the buffer exists.
CuckooFilter(capacity, fingerprint_size, max_relocations, checked) ==
  LET bucket_count == ceil_to_power_of_two(capacity \div m_bucket_size)
      aborted == checked /\ ~(fingerprint_size > 0 /\ fingerprint_size <= 4)
  IN  [aborted |-> aborted,
       m_capacity |-> capacity,
       m_bucket_count |-> bucket_count,
       m_fingerprint_size |-> fingerprint_size,
       m_max_relocations |-> max_relocations,
       m_size |-> 0,
       m_data |-> IF aborted THEN << >>
                  ELSE [i \in 0..(capacity * fingerprint_size - 1) |-> 0]]

\* a constructor call with the default max_relocations, and its outcome
ProbeConstruct(capacity, fingerprint_size, checked) ==
  /\ calc' = [op |-> "construct", capacity |-> capacity,
              fingerprint_size |-> fingerprint_size, checked |-> checked,
              filter |-> CuckooFilter(capacity, fingerprint_size,
                                      DefaultMaxRelocations, checked)]
  /\ UNCHANGED << config, m_data, m_size, last, owed, inserted, net_ok, ops >>

\* ceil_to_power_of_two applied to v
ProbeCeil(v) ==
  /\ calc' = [op |-> "ceil", v |-> v, result |-> ceil_to_power_of_two(v)]
  /\ UNCHANGED << config, m_data, m_size, last, owed, inserted, net_ok, ops >>

NextCtor ==
  \/ \E capacity \in 0..MaxCapacity, fingerprint_size \in CtorFingerprintSizes,
        checked \in BOOLEAN :
       ProbeConstruct(capacity, fingerprint_size, checked)
  \/ \E v \in (0..MaxCeilArg) \cup SampleCeilArgs : ProbeCeil(v)

SpecCtor == InitAlt /\ [][NextCtor]_vars

\* ------------------------------------------------ the Bucket methods alone
\* the fingerprints passed to the Bucket methods: two nonzero values of the
\* filter's width
BucketFingerprints ==
  {into_bytes(v, m_fingerprint_size) : v \in {1, 258}}

InitBucket ==
  \E capacity \in Capacities, fingerprint_size \in FingerprintSizes :
     Construct(capacity, fingerprint_size, 0)

\* get_bucket(index).insert(fingerprint)
CallBucketInsert(index, fingerprint) ==
  /\ ops < MaxBucketOps
  /\ LET r == Bucket_insert(m_data, get_bucket(index), fingerprint)
     IN  /\ m_data' = r.mem
         /\ calc' = [op |-> "Bucket::insert", bucket |-> index,
                     fingerprint |-> fingerprint, before |-> m_data,
                     ret |-> r.ok]
  /\ ops' = ops + 1
  /\ UNCHANGED << config, m_size, last, owed, inserted, net_ok >>

\* get_bucket(index).erase(fingerprint)
CallBucketErase(index, fingerprint) ==
  /\ ops < MaxBucketOps
  /\ LET r == Bucket_erase(m_data, get_bucket(index), fingerprint)
     IN  /\ m_data' = r.mem
         /\ calc' = [op |-> "Bucket::erase", bucket |-> index,
                     fingerprint |-> fingerprint, before |-> m_data,
                     ret |-> r.ok]
  /\ ops' = ops + 1
  /\ UNCHANGED << config, m_size, last, owed, inserted, net_ok >>

\* get_bucket(index).swap(fingerprint, slot), which the filter calls on a
\* bucket that has just refused the fingerprint; again records what a second
\* swap(fingerprint, slot) with the same vector would leave behind
CallBucketSwap(index, fingerprint, slot) ==
  /\ ops < MaxBucketOps
  /\ ~Bucket_insert(m_data, get_bucket(index), fingerprint).ok
  /\ LET s == Bucket_swap(m_data, get_bucket(index), fingerprint, slot)
     IN  /\ m_data' = s.mem
         /\ calc' = [op |-> "Bucket::swap", bucket |-> index,
                     fingerprint |-> fingerprint, slot |-> slot,
                     before |-> m_data, out |-> s.fingerprint,
                     again |-> Bucket_swap(s.mem, get_bucket(index),
                                           s.fingerprint, slot)]
  /\ ops' = ops + 1
  /\ UNCHANGED << config, m_size, last, owed, inserted, net_ok >>

NextBucket ==
  \E index \in 0..(m_bucket_count - 1), fingerprint \in BucketFingerprints :
     \/ CallBucketInsert(index, fingerprint)
     \/ CallBucketErase(index, fingerprint)
     \/ \E slot \in 0..(m_bucket_size - 1) :
          CallBucketSwap(index, fingerprint, slot)

SpecBucket == InitBucket /\ [][NextBucket]_vars

\* ------------------------------------------------- a filter that is filling up
\* the calls insert(0) a times, insert(1) b times, insert(2) c times
FillCalls(a, b, c) ==
  [i \in 1..(a + b + c) |-> IF i <= a THEN 0 ELSE IF i <= a + b THEN 1 ELSE 2]

\* the call sequences that leave at most one slot of a two-bucket filter free
FillSequences ==
  {FillCalls(a, b, c) : << a, b, c >> \in
     {t \in (3..4) \X (3..4) \X (0..2) : t[1] + t[2] + t[3] \in 7..8}}

\* the buffers the filter can hold after the calls of seq, made on the fresh
\* filter, have all returned true
RECURSIVE AfterInserts(_)
AfterInserts(seq) ==
  IF Len(seq) = 0 THEN {[i \in 0..(DataLen - 1) |-> 0]}
  ELSE UNION {{r.mem : r \in {o \in insert(mem, seq[Len(seq)]) : o.ret}}
                : mem \in AfterInserts(SubSeq(seq, 1, Len(seq) - 1))}

\* CuckooFilter(8, fingerprint_size, max_relocations) followed by the calls
\* of a fill sequence; ops counts the calls made after them
InitFull ==
  \E fingerprint_size \in FingerprintSizes,
     max_relocations \in 1..MaxRelocations, seq \in FillSequences :
       /\ m_capacity = 8
       /\ m_fingerprint_size = fingerprint_size
       /\ m_max_relocations = max_relocations
       /\ m_bucket_count = ceil_to_power_of_two(8 \div m_bucket_size)
       /\ m_data \in AfterInserts(seq)
       /\ m_size = Len(seq)
       /\ last = NoCall
       /\ owed = [c \in {ItemClass(x) : x \in Items} |->
                    Cardinality({i \in 1..Len(seq) : ItemClass(seq[i]) = c})]
       /\ inserted = {seq[i] : i \in 1..Len(seq)}
       /\ net_ok = Len(seq)
       /\ ops = 0
       /\ calc = NoCalc

InsertFull(item) == ops < MaxFullOps /\ Insert(item)
EraseFull(item) == ops < MaxFullOps /\ Erase(item)

NextFull ==
  \/ \E item \in Items : InsertFull(item)
  \/ \E item \in Items : EraseFull(item)

SpecFull == InitFull /\ [][NextFull]_vars

\* ------------------------------------------------------- claim vocabulary
Fingerprint(item) == get_indexes_and_fingerprint_for(item).fingerprint
Index(item) == get_indexes_and_fingerprint_for(item).index
AltIndex(item) == get_indexes_and_fingerprint_for(item).alt_index

\* the bucket_size slots of bucket index, by slot number
SlotNumbers == 0..(m_bucket_size - 1)
Slot(data, index, k) == Chunk(data, get_bucket(index), k)

\* number of slots of bucket index holding fingerprint
CountInBucket(data, index, fingerprint) ==
  Cardinality({k \in SlotNumbers : Slot(data, index, k) = fingerprint})

\* number of slots of the item's candidate buckets holding its fingerprint
StoredInCandidates(data, item) ==
  LET t == get_indexes_and_fingerprint_for(item)
  IN  CountInBucket(data, t.index, t.fingerprint)
      + (IF t.alt_index # t.index
           THEN CountInBucket(data, t.alt_index, t.fingerprint) ELSE 0)

\* number of slots of the whole filter holding fingerprint
TotalStored(data, fingerprint) ==
  Cardinality({<< b, k >> \in (0..(m_bucket_count - 1)) \X SlotNumbers :
                 Slot(data, b, k) = fingerprint})

\* number of slots of the whole filter that are not all-zero
Occupied(data) ==
  Cardinality({<< b, k >> \in (0..(m_bucket_count - 1)) \X SlotNumbers :
                 Slot(data, b, k) # empty_fingerprint})

\* the step is a call of op (every call increments ops)
Called(op) == ops' = ops + 1 /\ last'.op = op

\* ------------------------------------------------------------------ C1
\* C1: no false negatives.  In every reachable state, every item that has a
\* successful insert not yet removed again (by a successful erase of an item
\* of the same fingerprint and bucket pair, by clear, or as the fingerprint
\* dropped by a failed insert) is reported by contains, whatever lies behind
\* the buffer; each such insert still has a slot of its own in one of the
\* item's two candidate buckets.
C1_NoFalseNegatives ==
  \A x \in Items :
     LET successes == owed[ItemClass(x)]
     IN  successes > 0 =>
           /\ contains(x) = {TRUE}
           /\ StoredInCandidates(m_data, x) >= successes

\* a cascade has succeeded by moving a resident fingerprint into the other
\* bucket of its pair, and the items owed so far are all still contained
C1_Witness ==
  /\ last.op = "insert" /\ last.ret
  /\ Swaps(last.trace) >= 1
  /\ last.trace[Len(last.trace)].bucket # last.trace[1].bucket
  /\ \E x \in Items : /\ owed[ItemClass(x)] > 0
                      /\ Fingerprint(x) = last.hand
                      /\ Fingerprint(x) # Fingerprint(last.item)

\* ------------------------------------------------------------------ C2
\* C2: get_alt_index is self-inverse.  Applying it twice with the same
\* nonzero fingerprint to a bucket index in [0, bucket_count) gives the index
\* back, and for the triple derived from an item the alternate of the index
\* is the alt_index and the alternate of the alt_index is the index.
C2_AltIndexSelfInverse ==
  /\ calc.op = "alt" => calc.back = calc.index
  /\ calc.op = "derive" => /\ calc.alt_of_index = calc.alt_index
                           /\ calc.alt_of_alt = calc.index

\* an index of a filter with at least four buckets whose alternate differs
\* from it by more than the lowest bit
C2_Witness ==
  /\ calc.op = "alt"
  /\ m_bucket_count >= 4
  /\ calc.alt # calc.index
  /\ calc.alt # BitXor(calc.index, 1)
  /\ calc.back = calc.index

\* ------------------------------------------------------------------ C3
\* C3: locatability.  Every nonzero fingerprint stored in a bucket equals
\* the fingerprint of some item passed to insert since the last clear whose
\* candidate pair contains that bucket; and in every cascade each insert
\* attempt after the first goes to get_alt_index of the bucket of the
\* previous attempt (the bucket the fingerprint in hand came from).
C3_Locatable ==
  /\ LET triples == {get_indexes_and_fingerprint_for(x) : x \in inserted}
     IN  \A b \in 0..(m_bucket_count - 1), k \in SlotNumbers :
            LET stored == Slot(m_data, b, k)
            IN  stored # empty_fingerprint =>
                  \E t \in triples : /\ t.fingerprint = stored
                                      /\ b \in {t.index, t.alt_index}
  /\ last.op = "insert" =>
       \A n \in 2..Len(last.trace) :
          /\ ~last.trace[n - 1].ok
          /\ last.trace[n].bucket =
               get_alt_index(last.trace[n - 1].bucket, last.trace[n].fp)

\* a cascade has evicted the fingerprint of another item and stored it in
\* the other bucket of its pair
C3_Witness ==
  /\ last.op = "insert" /\ last.ret
  /\ Len(last.trace) >= 3
  /\ last.trace[Len(last.trace)].fp # Fingerprint(last.item)
  /\ last.trace[Len(last.trace)].bucket # last.trace[Len(last.trace) - 1].bucket

\* ------------------------------------------------------------------ C4
\* C4: contains(item) is true exactly when the item's fingerprint equals one
\* of the bucket_size slots of bucket(index) or of bucket(alt_index); no
\* other slot has any influence.  (Stated with zero bytes behind the
\* buffer.)
C4_ContainsOnlyCandidates ==
  \A x \in Items :
     contains_in(m_data, Heap(0), x) <=> (StoredInCandidates(m_data, x) > 0)

\* ------------------------------------------------------------------ C5
\* C5: size accounting.  An insert that returns true adds exactly 1 to
\* size(), an erase that returns true subtracts exactly 1, an insert or erase
\* that returns false leaves size() unchanged; so size() always is the number
\* of successful inserts minus the number of successful erases since
\* construction or the last clear.
C5_SizeAccounting ==
  /\ [](m_size = net_ok)
  /\ [][ /\ Called("insert") =>
              m_size' = m_size + (IF last'.ret THEN 1 ELSE 0)
         /\ Called("erase") =>
              m_size' = m_size - (IF last'.ret THEN 1 ELSE 0) ]_vars

\* a successful erase has just brought size() down to the number of
\* successful inserts that remain
C5_Witness ==
  /\ last.op = "erase" /\ last.ret
  /\ m_size >= 1
  /\ m_size = net_ok

\* ------------------------------------------------------------------ C6
\* C6: after clear() every byte of the backing buffer is zero, size() is 0
\* and contains(x) is false for every item x.
C6_AfterClear ==
  last.op = "clear" =>
    /\ \A i \in DOMAIN m_data : m_data[i] = 0
    /\ m_size = 0
    /\ \A x \in Items : contains(x) = {FALSE}

\* ------------------------------------------------------------------ C7
\* C7: erasing twice.  When exactly one slot of the item's two candidate
\* buckets holds its fingerprint (the item was inserted once and nothing
\* else there equals its fingerprint), erase(item) returns true and a
\* second erase(item) right after it returns false.
C7_EraseTwice ==
  [][ \A x \in Items :
        (Called("erase") /\ last'.item = x
         /\ StoredInCandidates(m_data, x) = 1)
        => /\ last'.ret
           /\ ~erase(m_data', x).ok ]_vars

\* the only copy of an inserted item's fingerprint has just been erased
C7_Witness ==
  /\ last.op = "erase" /\ last.ret
  /\ last.item \in inserted
  /\ StoredInCandidates(m_data, last.item) = 0
  /\ ~erase(m_data, last.item).ok

\* ------------------------------------------------------------------ C8
\* C8: erase(item) returns true exactly when the item's fingerprint is in a
\* slot of bucket(index) or bucket(alt_index), whether or not the item was
\* ever inserted; it then zeroes exactly one slot holding the fingerprint,
\* in bucket(index) if the fingerprint is there and in bucket(alt_index)
\* otherwise, and changes no other byte; when it returns false it changes
\* nothing.
SlotBytes(index, k) ==
  LET off == get_bucket(index).m_begin + k * m_fingerprint_size
  IN  off..(off + m_fingerprint_size - 1)

C8_EraseEffect ==
  [][ \A x \in Items :
        (Called("erase") /\ last'.item = x) =>
          LET fp == Fingerprint(x)
              in_index == CountInBucket(m_data, Index(x), fp) > 0
              in_alt == CountInBucket(m_data, AltIndex(x), fp) > 0
              from == IF in_index THEN Index(x) ELSE AltIndex(x)
          IN  /\ last'.ret = (in_index \/ in_alt)
              /\ last'.ret =>
                   \E k \in SlotNumbers :
                      /\ Slot(m_data, from, k) = fp
                      /\ m_data' = [i \in DOMAIN m_data |->
                                      IF i \in SlotBytes(from, k)
                                        THEN 0 ELSE m_data[i]]
              /\ ~last'.ret => m_data' = m_data ]_vars

\* erase has returned true for an item that was never passed to insert
C8_Witness ==
  /\ last.op = "erase" /\ last.ret
  /\ last.item \notin inserted
  /\ m_size = net_ok

\* ------------------------------------------------------------------ C9
\* C9: insert then erase removes the item.  When exactly one slot of the
\* whole filter holds the item's fingerprint and erase(item) returns true,
\* contains(item) is false afterwards.
C9_InsertEraseNotContained ==
  [][ \A x \in Items :
        (Called("erase") /\ last'.item = x /\ last'.ret
         /\ TotalStored(m_data, Fingerprint(x)) = 1)
        => contains_on(m_data', x) = {FALSE} ]_vars

\* ------------------------------------------------------------------ C10
\* C10: lossy overflow.  An insert that returns false leaves size() and the
\* number of occupied slots unchanged; if it swapped at all, the stored
\* fingerprints afterwards are those before plus the requested fingerprint
\* minus the fingerprint left in hand; with max_relocations = 0 (no swap)
\* the buffer is unchanged.
IsValue(v, w) == IF v = w THEN 1 ELSE 0

C10_LossyOverflow ==
  [][ (Called("insert") /\ ~last'.ret) =>
        LET requested == Fingerprint(last'.item)
            hand == last'.hand
            values == {Slot(m_data, b, k) :
                         b \in 0..(m_bucket_count - 1), k \in SlotNumbers}
                      \cup {Slot(m_data', b, k) :
                         b \in 0..(m_bucket_count - 1), k \in SlotNumbers}
                      \cup {requested, hand}
        IN  /\ m_size' = m_size
            /\ Occupied(m_data') = Occupied(m_data)
            /\ m_max_relocations = 0 => m_data' = m_data
            /\ Swaps(last'.trace) = 0 => m_data' = m_data
            /\ Swaps(last'.trace) >= 1 =>
                 \A v \in values :
                    TotalStored(m_data', v) + IsValue(v, hand)
                      = TotalStored(m_data, v) + IsValue(v, requested) ]_vars

\* a failed insert has dropped the fingerprint of another item
C10_Witness ==
  /\ last.op = "insert" /\ ~last.ret
  /\ Swaps(last.trace) >= 1
  /\ last.hand # Fingerprint(last.item)
  /\ TotalStored(m_data, Fingerprint(last.item)) >= 1

\* ------------------------------------------------------------------ C11
\* the items that had their fingerprint in a candidate bucket in before (or
\* are the requested item) and have it in neither candidate bucket in after
LostItems(before, after, requested) ==
  {x \in Items : /\ StoredInCandidates(after, x) = 0
                 /\ x = requested \/ StoredInCandidates(before, x) > 0}

\* the items contained before (or requested) and not contained after, when
\* the bytes behind the buffer are h
LostContains(before, after, h, requested) ==
  {x \in Items :
     LET t == get_indexes_and_fingerprint_for(x)
     IN  /\ x = requested \/ contains_triple(before @@ h, t)
         /\ ~contains_triple(after @@ h, t)}

\* C11 as stated: an insert that returns false loses at most one item: among
\* the items contained before the call together with the requested item, at
\* most one is not contained after the call.
C11_AtMostOneItemLost ==
  [][ (Called("insert") /\ ~last'.ret) =>
        \A h \in Heaps :
           Cardinality(LostContains(m_data, m_data', h, last'.item)) <= 1
    ]_vars

\* C11 as amended: an insert that returns false loses at most one stored
\* fingerprint.  The items whose fingerprint was in one of their candidate
\* buckets before the call (together with the requested item) and is in
\* neither after it all derive the same fingerprint and bucket pair: that of
\* the fingerprint left in hand when the insert swapped, that of the
\* requested item when it did not.
C11_OneFingerprintLost ==
  [][ (Called("insert") /\ ~last'.ret) =>
        LET final == last'.trace[Len(last'.trace)]
            dropped == IF final.swapped
                         THEN ClassOf(final.bucket, last'.hand)
                         ELSE ItemClass(last'.item)
        IN  \A x \in LostItems(m_data, m_data', last'.item) :
               ItemClass(x) = dropped ]_vars

\* a failed insert has dropped the only copy of a fingerprint that two items
\* share, neither of them the requested one
C11_Witness ==
  /\ last.op = "insert" /\ ~last.ret
  /\ Swaps(last.trace) >= 1
  /\ \E x, y \in Items \ {last.item} :
        /\ x # y
        /\ ItemClass(x) = ItemClass(y)
        /\ Fingerprint(x) = last.hand
        /\ x \in inserted
        /\ StoredInCandidates(m_data, x) = 0

\* ------------------------------------------------------------------ C12
\* C12: when insert(item) returns false and max_relocations >= 1, the
\* requested item has been stored and another fingerprint was kicked out:
\* contains(item) is true right after the failed insert.
C12_FailedInsertStored ==
  [][ (Called("insert") /\ ~last'.ret /\ m_max_relocations >= 1) =>
        contains_on(m_data', last'.item) = {TRUE} ]_vars

\* ------------------------------------------------------------------ C13
\* C13 as stated: when insert(item) returns false because the relocation
\* bound was exhausted, the requested item was not stored: the number of
\* slots in its two candidate buckets holding its fingerprint is not
\* greater after the call than before it.
C13_FailedInsertNotStored ==
  [][ (Called("insert") /\ ~last'.ret) =>
        StoredInCandidates(m_data', last'.item)
          <= StoredInCandidates(m_data, last'.item) ]_vars

\* C13 as amended: when insert(item) returns false after at least one swap,
\* the requested fingerprint was stored and the fingerprint in hand after
\* the last swap was dropped: the number of slots in the item's two
\* candidate buckets holding its fingerprint is one greater after the call
\* than before it, unless the dropped fingerprint has the item's own
\* fingerprint and bucket pair, and then the number is unchanged.  When no
\* swap happened (max_relocations = 0) the number is unchanged.
C13_FailedInsertStoresRequested ==
  [][ (Called("insert") /\ ~last'.ret) =>
        LET final == last'.trace[Len(last'.trace)]
            gain == IF ~final.swapped THEN 0
                    ELSE IF ClassOf(final.bucket, last'.hand)
                              = ItemClass(last'.item) THEN 0
                    ELSE 1
        IN  StoredInCandidates(m_data', last'.item)
              = StoredInCandidates(m_data, last'.item) + gain ]_vars

\* a failed insert has left the requested fingerprint in the filter and
\* dropped the fingerprint of another item
C13_Witness ==
  /\ last.op = "insert" /\ ~last.ret
  /\ m_max_relocations >= 1
  /\ last.hand # Fingerprint(last.item)
  /\ StoredInCandidates(m_data, last.item) = 1

\* ------------------------------------------------------------------ C14
\* C14: for every capacity and fingerprint_size the constructor accepts,
\* the buffer has exactly bucket_count * bucket_size * fingerprint_size
\* bytes and every byte is zero after construction.
C14_BufferLength ==
  (calc.op = "construct" /\ ~calc.filter.aborted) =>
     LET f == calc.filter
     IN  /\ DOMAIN f.m_data
              = 0..(f.m_bucket_count * m_bucket_size * f.m_fingerprint_size - 1)
         /\ \A a \in DOMAIN f.m_data : f.m_data[a] = 0

\* ------------------------------------------------------------------ C15
\* C15: construction fails fast, without producing a usable filter, when
\* fingerprint_size is outside 1..4 or when capacity / bucket_size is 0
\* (capacity in 0..3); such values are never silently clamped.
C15_FailFast ==
  (/\ calc.op = "construct"
   /\ \/ calc.fingerprint_size \notin 1..4
      \/ calc.capacity \div m_bucket_size = 0)
    => calc.filter.aborted

\* ------------------------------------------------------------------ C16
IsPowerOfTwo(n) == \E k \in 0..30 : n = Pow2(k)

\* r is the smallest power of two that is at least v
SmallestPowerOfTwoFrom(v, r) ==
  /\ IsPowerOfTwo(r)
  /\ r >= v
  /\ \A k \in 0..30 : Pow2(k) >= v => r <= Pow2(k)

\* C16: ceil_to_power_of_two(v) is the smallest power of two >= v for every
\* v >= 1, and v itself when v is a power of two; bucket_count is a power of
\* two, the smallest one >= capacity / bucket_size.
C16_CeilToPowerOfTwo ==
  /\ calc.op = "ceil" /\ calc.v >= 1 =>
       /\ SmallestPowerOfTwoFrom(calc.v, calc.result)
       /\ IsPowerOfTwo(calc.v) => calc.result = calc.v
  /\ calc.op = "construct" /\ ~calc.filter.aborted =>
       SmallestPowerOfTwoFrom(calc.capacity \div m_bucket_size,
                              calc.filter.m_bucket_count)
  /\ SmallestPowerOfTwoFrom(m_capacity \div m_bucket_size, m_bucket_count)

\* ceil_to_power_of_two has rounded up a value that is not a power of two,
\* and has been applied to a power of two larger than 2
C16_Witness ==
  /\ calc.op = "ceil"
  /\ calc.v > 2
  /\ \/ ~IsPowerOfTwo(calc.v) /\ calc.result > calc.v
     \/ IsPowerOfTwo(calc.v) /\ calc.result = calc.v

\* ------------------------------------------------------------------ C17
\* the primary and the alternate index of the item lie in 0 .. bucket_count - 1
TripleInRange(item) ==
  LET t == get_indexes_and_fingerprint_for(item)
  IN  /\ t.index \in 0..(m_bucket_count - 1)
      /\ t.alt_index \in 0..(m_bucket_count - 1)

\* C17: every bucket index used by insert, contains and erase lies in
\* 0 .. bucket_count - 1: the primary index and the alternate index of every
\* item, and every index a relocation cascade reaches through get_alt_index.
\* (An item's indexes depend on the constructor's arguments only, so they
\* are looked at for every item in the fresh filter, and later for the item
\* of the call just made.)
C17_IndexesInRange ==
  /\ ops = 0 => \A x \in Items : TripleInRange(x)
  /\ last.op \in {"insert", "erase"} => TripleInRange(last.item)
  /\ \A k \in 1..Len(last.trace) :
        last.trace[k].bucket \in 0..(m_bucket_count - 1)

\* a cascade has swapped in a bucket other than the item's primary one and
\* has gone on from there
C17_Witness ==
  /\ last.op = "insert"
  /\ m_bucket_count > 1
  /\ \E k \in 1..(Len(last.trace) - 1) :
        /\ last.trace[k].swapped
        /\ last.trace[k].bucket # last.trace[k + 1].bucket

\* ------------------------------------------------------------------ C18
\* C18: for every item and every fingerprint_size in 1..4 the fingerprint is
\* the top fingerprint_size * 8 bits of the low 32-bit half of the strong
\* hash, with the value 0 replaced by 1; its value lies in
\* 1 .. 2^(fingerprint_size * 8) - 1, and it is packed, low byte first, into
\* exactly fingerprint_size bytes that are not all zero.
C18_FingerprintDerivation ==
  calc.op = "derive" =>
    LET low_half == m_strong_hash_fn(weak_hash_fn(calc.item)).lo
        width == m_fingerprint_size * 8
        top == low_half \div Pow2(32 - width)
        value == IF top = 0 THEN 1 ELSE top
        vec == calc.fingerprint
    IN  /\ DOMAIN vec = 1..m_fingerprint_size
        /\ \A i \in DOMAIN vec : vec[i] = (value \div Pow2(8 * (i - 1))) % 256
        /\ from_bytes(vec) = value
        /\ from_bytes(vec) >= 1
        /\ width < 31 => from_bytes(vec) <= Pow2(width) - 1
        /\ \E i \in DOMAIN vec : vec[i] # 0

\* a fingerprint of two or three bytes has been derived from a hash whose
\* top bits are not zero, and one from a hash whose top bits are zero
C18_Witness ==
  /\ calc.op = "derive"
  /\ m_fingerprint_size \in 2..3
  /\ \/ /\ calc.fingerprint[1] # 0
        /\ calc.fingerprint[m_fingerprint_size] # 0
        /\ m_strong_hash_fn(weak_hash_fn(calc.item)).lo >= Pow2(24)
     \/ /\ from_bytes(calc.fingerprint) = 1
        /\ m_strong_hash_fn(weak_hash_fn(calc.item)).lo = 0

\* ------------------------------------------------------------------ C19
\* the slots of bucket index that hold no fingerprint
FreeSlots(data, index) ==
  {k \in SlotNumbers : Slot(data, index, k) = empty_fingerprint}

\* the addresses of slot k of bucket index
SlotAddresses(index, k) ==
  LET first == get_bucket(index).m_begin + k * m_fingerprint_size
  IN  first..(first + m_fingerprint_size - 1)

\* C19: a bucket accepts a fingerprint by direct Bucket::insert exactly while
\* fewer than bucket_size = 4 of its slots are taken, so an empty bucket
\* accepts exactly four; an accepted fingerprint goes into the first free
\* slot and nothing else changes; a Bucket::insert into a full bucket
\* returns false and leaves the four stored fingerprints unchanged.
C19_BucketAcceptsFour ==
  [][ Called("insert") =>
        LET first == last'.trace[1]
            free == FreeSlots(m_data, first.bucket)
        IN  /\ first.ok <=> free # {}
            /\ first.ok <=> Cardinality(SlotNumbers \ free) < 4
            /\ first.ok =>
                 LET k == CHOOSE n \in free : \A o \in free : n <= o
                 IN  /\ Slot(m_data', first.bucket, k) = first.fp
                     /\ \A a \in DOMAIN m_data \ SlotAddresses(first.bucket, k) :
                           m_data'[a] = m_data[a]
            /\ (~first.ok /\ Len(last'.trace) = 1) => m_data' = m_data
    ]_vars

\* five inserts without relocation went to one bucket: four were accepted
\* and the fifth was turned down by the full bucket
C19_Witness ==
  /\ last.op = "insert" /\ ~last.ret
  /\ Len(last.trace) = 1
  /\ m_bucket_count = 1
  /\ ops = 5 /\ net_ok = 4
  /\ FreeSlots(m_data, last.trace[1].bucket) = {}

\* ------------------------------------------------------------------ C20
\* C20: every insert call ends after at most max_relocations swaps and at
\* most max_relocations + 1 Bucket::insert attempts, whatever the contents
\* of the filter and the random choices, also when the cascade comes back
\* to a bucket it has already swapped in.
C20_BoundedCascade ==
  last.op = "insert" =>
    /\ Swaps(last.trace) <= m_max_relocations
    /\ Len(last.trace) <= m_max_relocations + 1
    /\ \A k \in 1..Len(last.trace) :
          /\ last.trace[k].swapped => ~last.trace[k].ok
          /\ last.trace[k].ok => k = Len(last.trace)
    /\ ~last.ret => Swaps(last.trace) = m_max_relocations

\* an insert has used up its max_relocations >= 2 swaps, two of them in the
\* same bucket
C20_Witness ==
  /\ last.op = "insert" /\ ~last.ret
  /\ m_max_relocations >= 2
  /\ Swaps(last.trace) = m_max_relocations
  /\ \E j, k \in 1..Len(last.trace) :
        /\ j < k
        /\ last.trace[j].swapped /\ last.trace[k].swapped
        /\ last.trace[j].bucket = last.trace[k].bucket

\* ------------------------------------------------------------------ C21
\* CuckooFilter::capacity
capacity == m_capacity

\* CuckooFilter::size
size == m_size

\* C21: a freshly constructed filter has size() = 0 and contains(x) = false
\* for every item x, and no operation changes what capacity() returns, the
\* constructor's capacity argument.
C21_FreshFilter ==
  /\ [](ops = 0 => /\ size = 0
                   /\ capacity \in Capacities
                   /\ \A x \in Items : contains(x) = {FALSE})
  /\ [][capacity' = capacity]_vars

\* ------------------------------------------------------------------ C22
\* C22 as stated: when the caller passes no max_relocations, the relocation
\* bound insert uses is at least 100.
C22_DefaultSeveralHundred ==
  /\ m_max_relocations >= 100
  /\ calc.op = "construct" /\ ~calc.filter.aborted =>
       calc.filter.m_max_relocations >= 100

\* C22 as amended: when the caller passes no max_relocations, the relocation
\* bound insert uses is 10.
C22_DefaultIsTen ==
  /\ m_max_relocations = 10
  /\ calc.op = "construct" /\ ~calc.filter.aborted =>
       calc.filter.m_max_relocations = 10

\* a filter has been constructed without a max_relocations argument and its
\* bound is below 100
C22_Witness ==
  /\ calc.op = "construct" /\ ~calc.filter.aborted
  /\ calc.filter.m_bucket_count > 1
  /\ calc.filter.m_max_relocations < 100

\* ------------------------------------------------------------------ C24
\* the buffer data with the bytes of slot k of bucket index replaced by bytes
WithSlot(data, index, k, bytes) ==
  LET first == get_bucket(index).m_begin + k * m_fingerprint_size
  IN  [a \in DOMAIN data |->
         IF a \in SlotAddresses(index, k) THEN bytes[a - first + 1]
         ELSE data[a]]

\* the lowest number in a nonempty set of slot numbers
Lowest(slots) == CHOOSE k \in slots : \A o \in slots : k <= o

\* C24: Bucket::insert(fp) writes fp into the lowest-indexed all-zero slot of
\* the bucket, leaves every other byte of the buffer unchanged and returns
\* true; when the bucket has no all-zero slot it returns false and changes
\* nothing.
C24_BucketInsertFrame ==
  calc.op = "Bucket::insert" =>
    LET free == FreeSlots(calc.before, calc.bucket)
    IN  IF free = {}
          THEN ~calc.ret /\ m_data = calc.before
          ELSE /\ calc.ret
               /\ m_data = WithSlot(calc.before, calc.bucket, Lowest(free),
                                    calc.fingerprint)

\* Bucket::insert has filled a hole below a slot that was taken
C24_Witness ==
  /\ calc.op = "Bucket::insert" /\ calc.ret
  /\ m_bucket_count > 1
  /\ \E k, j \in SlotNumbers :
        /\ k < j
        /\ k \in FreeSlots(calc.before, calc.bucket)
        /\ j \notin FreeSlots(calc.before, calc.bucket)
        /\ Slot(m_data, calc.bucket, k) = calc.fingerprint

\* ------------------------------------------------------------------ C25
\* the slots of bucket index that hold fingerprint
SlotsHolding(data, index, fingerprint) ==
  {k \in SlotNumbers : Slot(data, index, k) = fingerprint}

\* C25: Bucket::erase(fp) zeroes only the lowest-indexed slot equal to fp,
\* leaves further copies of fp and every other slot unchanged and returns
\* true; when no slot equals fp it returns false and changes nothing.
C25_BucketEraseFrame ==
  calc.op = "Bucket::erase" =>
    LET hits == SlotsHolding(calc.before, calc.bucket, calc.fingerprint)
    IN  IF hits = {}
          THEN ~calc.ret /\ m_data = calc.before
          ELSE /\ calc.ret
               /\ m_data = WithSlot(calc.before, calc.bucket, Lowest(hits),
                                    empty_fingerprint)

\* Bucket::erase has removed one of several copies of a fingerprint
C25_Witness ==
  /\ calc.op = "Bucket::erase" /\ calc.ret
  /\ Cardinality(SlotsHolding(calc.before, calc.bucket,
                              calc.fingerprint)) >= 2
  /\ Cardinality(SlotsHolding(m_data, calc.bucket, calc.fingerprint)) >= 1

\* ------------------------------------------------------------------ C26
\* C26: Bucket::swap(fp, k) for k in 0 .. bucket_size - 1 exchanges the
\* contents: afterwards slot k holds the old value of fp, fp holds the old
\* value of slot k and all other slots are unchanged; the same swap applied
\* a second time restores the buffer and fp.
C26_BucketSwapExchange ==
  calc.op = "Bucket::swap" =>
    /\ calc.out = Slot(calc.before, calc.bucket, calc.slot)
    /\ m_data = WithSlot(calc.before, calc.bucket, calc.slot,
                         calc.fingerprint)
    /\ calc.again.mem = calc.before
    /\ calc.again.fingerprint = calc.fingerprint

\* Bucket::swap has exchanged two different fingerprints in a slot other
\* than the first
C26_Witness ==
  /\ calc.op = "Bucket::swap"
  /\ calc.slot > 0
  /\ calc.out # calc.fingerprint
  /\ Slot(m_data, calc.bucket, calc.slot) = calc.fingerprint

\* ------------------------------------------------------------------ C27
\* C27 as stated: in the relocation cascade every fingerprint displaced by a
\* swap is attempted for insertion into its alternate bucket before insert
\* gives up, so that every swap is followed by an insert attempt.
C27_DisplacedAlwaysTried ==
  last.op = "insert" =>
    \A k \in 1..Len(last.trace) :
       last.trace[k].swapped =>
         /\ k < Len(last.trace)
         /\ last.trace[k + 1].bucket
              = get_alt_index(last.trace[k].bucket, last.trace[k + 1].fp)

\* C27 as amended: every fingerprint displaced by a swap, except the one
\* displaced by the last swap of an insert that returns false, is attempted
\* for insertion into its alternate bucket; an insert that returns false
\* after max_relocations >= 1 swaps ends with a swap and returns holding the
\* fingerprint that swap displaced, whose alternate bucket it has not tried.
C27_DisplacedTriedButLast ==
  last.op = "insert" =>
    /\ \A k \in 1..Len(last.trace) :
          last.trace[k].swapped =>
            IF k < Len(last.trace)
              THEN last.trace[k + 1].bucket
                     = get_alt_index(last.trace[k].bucket,
                                     last.trace[k + 1].fp)
              ELSE ~last.ret
    /\ (~last.ret /\ m_max_relocations >= 1) =>
          last.trace[Len(last.trace)].swapped

\* an insert has failed after two swaps, holding a fingerprint other than
\* the one it tried last
C27_Witness ==
  /\ last.op = "insert" /\ ~last.ret
  /\ Swaps(last.trace) >= 2
  /\ last.hand # last.trace[Len(last.trace)].fp

\* ------------------------------------------------------------------ C28
\* C28 as stated: when the direct insert into the randomly chosen initial
\* target bucket fails, the first swap of the cascade is performed in that
\* same bucket, and the displaced fingerprint is then tried in its alternate
\* bucket.
C28_FirstSwapInTargetBucket ==
  last.op = "insert" =>
    \A k \in 1..Len(last.trace) :
       (last.trace[k].swapped /\ \A j \in 1..(k - 1) : ~last.trace[j].swapped)
         => last.trace[k].bucket = last.trace[1].bucket

\* C28 as amended: when the direct insert into the randomly chosen initial
\* target bucket fails and max_relocations >= 1, the item's fingerprint is
\* next tried in the other candidate bucket (the alternate of the initial
\* target); only when that fails too is the first swap performed, in that
\* other bucket, and the displaced fingerprint is then tried in its
\* alternate bucket if max_relocations >= 2.
C28_FirstSwapInOtherBucket ==
  last.op = "insert" =>
    LET fingerprint == Fingerprint(last.item)
        n == Len(last.trace)
    IN  /\ ~last.trace[1].swapped
        /\ last.trace[1].fp = fingerprint
        /\ (~last.trace[1].ok /\ m_max_relocations >= 1) => n >= 2
        /\ n >= 2 =>
             /\ ~last.trace[1].ok
             /\ last.trace[2].fp = fingerprint
             /\ last.trace[2].bucket
                  = get_alt_index(last.trace[1].bucket, fingerprint)
             /\ last.trace[2].swapped <=> ~last.trace[2].ok
        /\ (n >= 2 /\ last.trace[2].swapped /\ m_max_relocations >= 2) =>
             /\ n >= 3
             /\ last.trace[3].bucket
                  = get_alt_index(last.trace[2].bucket, last.trace[3].fp)

\* the first swap of a cascade happened in a bucket other than the one the
\* direct insert was refused by
C28_Witness ==
  /\ last.op = "insert"
  /\ Len(last.trace) >= 2
  /\ last.trace[2].swapped
  /\ last.trace[2].bucket # last.trace[1].bucket

\* ------------------------------------------------------------------ C29
\* every slot that holds a fingerprint in before holds the same one in after
ResidentsStay(before, after) ==
  \A b \in 0..(m_bucket_count - 1), k \in SlotNumbers :
     Slot(before, b, k) # empty_fingerprint =>
       Slot(after, b, k) = Slot(before, b, k)

\* C29: with max_relocations >= 1 insert evicts no resident fingerprint
\* unless both candidate buckets of the item are full: if bucket(index) or
\* bucket(alt_index) has an empty slot, insert returns true whichever bucket
\* the random choice picks first, and all previously stored fingerprints
\* stay in their slots.
C29_NoEvictionWhileRoom ==
  [][ (Called("insert") /\ m_max_relocations >= 1) =>
        LET t == get_indexes_and_fingerprint_for(last'.item)
        IN  (\/ FreeSlots(m_data, t.index) # {}
             \/ FreeSlots(m_data, t.alt_index) # {})
              => /\ last'.ret
                 /\ Swaps(last'.trace) = 0
                 /\ ResidentsStay(m_data, m_data') ]_vars

\* an insert was refused by the full bucket it tried first and accepted by
\* the item's other bucket
C29_Witness ==
  /\ last.op = "insert" /\ last.ret
  /\ Len(last.trace) = 2
  /\ last.trace[1].bucket # last.trace[2].bucket
  /\ FreeSlots(m_data, last.trace[1].bucket) = {}

\* ------------------------------------------------------------------ C30
\* C30: in every reachable state size() is the number of slots of the
\* buffer that are not all-zero; so size() never underflows and never
\* exceeds bucket_count * bucket_size.
C30_SizeIsOccupied ==
  /\ size = Occupied(m_data)
  /\ size >= 0
  /\ size <= m_bucket_count * m_bucket_size

\* a full filter has turned an insert down after swapping, and an erase has
\* brought the size back to 0
C30_Witness ==
  \/ /\ last.op = "insert" /\ ~last.ret
     /\ Swaps(last.trace) >= 1
     /\ size = m_bucket_count * m_bucket_size
  \/ /\ last.op = "erase" /\ last.ret
     /\ size = 0

\* ------------------------------------------------------------------ C31
\* the byte addresses of bucket index
BucketRange(index) ==
  get_bucket(index).m_begin..(get_bucket(index).m_end - 1)

\* the byte addresses std::find dereferences when it walks the chunk indexes
\* [first, lst) of bucket b without a match
ScanReach(b, first, lst) ==
  (b.m_begin + first * m_fingerprint_size)
    ..(b.m_begin + lst * m_fingerprint_size - 1)

\* C31: memory safety of the bucket views.  Every byte that Bucket insert,
\* erase and swap (scanning begin()..end()) and Bucket contains (scanning
\* cbegin()..cend()) touch in a bucket handed out by get_bucket lies inside
\* the backing buffer and inside that bucket's own byte range.
C31_BucketViewsInBounds ==
  \A index \in 0..(m_bucket_count - 1) :
     LET b == get_bucket(index)
         mutating == ScanReach(b, BucketBegin(b), BucketEnd(b))
         reading  == ScanReach(b, BucketCBegin(b), BucketCEnd(b))
     IN  /\ mutating \subseteq BucketRange(index)
         /\ mutating \subseteq DOMAIN m_data
         /\ reading \subseteq BucketRange(index)
         /\ reading \subseteq DOMAIN m_data

\* ------------------------------------------------------------------ C32
\* C32: the precondition of Bucket::insert holds at every call made by
\* CuckooFilter::insert.  The fingerprint derived for an item is never
\* all-zero, every fingerprint handed to Bucket::insert during a call
\* (the derived one and each one taken in hand by a swap) is not all-zero,
\* the fingerprint left in hand is not all-zero, and every slot holds either
\* the all-zero sentinel or the (nonzero) fingerprint of an inserted item.
C32_InsertPrecondition ==
  /\ \A x \in Items : Fingerprint(x) # empty_fingerprint
  /\ last.op = "insert" =>
       /\ \A k \in 1..Len(last.trace) :
             last.trace[k].fp # empty_fingerprint
       /\ last.hand # empty_fingerprint
  /\ \A index \in 0..(m_bucket_count - 1), k \in SlotNumbers :
        \/ Slot(m_data, index, k) = empty_fingerprint
        \/ \E x \in inserted :
              /\ Slot(m_data, index, k) = Fingerprint(x)
              /\ Fingerprint(x) # empty_fingerprint

\* an insert has succeeded after a cascade: a fingerprint other than the
\* requested one was taken in hand by a swap and accepted by Bucket::insert
C32_Witness ==
  /\ last.op = "insert" /\ last.ret
  /\ Swaps(last.trace) >= 1
  /\ last.hand # Fingerprint(last.item)
  /\ last.hand # empty_fingerprint

\* ------------------------------------------------------------------ C33
\* CuckooFilter::contains, a const member function: it derives the triple,
\* looks into the two buckets and returns; nothing of the filter is assigned
Contains(item) ==
  /\ ops < MaxQueryOps
  /\ \E ret \in contains(item) :
        last' = [op |-> "contains", item |-> item, ret |-> ret,
                 hand |-> << >>, trace |-> << >>]
  /\ ops' = ops + 1
  /\ UNCHANGED << config, m_data, m_size, owed, inserted, net_ok, calc >>

InsertQuery(item) == ops < MaxQueryOps /\ Insert(item)
EraseQuery(item) == ops < MaxQueryOps /\ Erase(item)

NextQuery ==
  \/ \E item \in Items : InsertQuery(item)
  \/ \E item \in Items : EraseQuery(item)
  \/ \E item \in Items : Contains(item)

SpecQuery == Init /\ [][NextQuery]_vars

\* the number of values a call has drawn from the random source: insert
\* draws index_dis(gen) once and bucket_dis(gen) once per swap; erase and
\* contains draw nothing
Draws(call) ==
  IF call.op = "insert" THEN 1 + Swaps(call.trace) ELSE 0

\* C33: contains(item) changes neither the backing buffer nor size() nor
\* the random source, and an erase(item) that returns false leaves the
\* backing buffer and size() unchanged.
C33_QueryFrame ==
  [][ /\ Called("contains") =>
           /\ m_data' = m_data
           /\ m_size' = m_size
           /\ Draws(last') = 0
      /\ (Called("erase") /\ ~last'.ret) =>
           /\ m_data' = m_data
           /\ m_size' = m_size ]_vars

\* contains has just answered true on a filter that holds fingerprints
C33_Witness ==
  /\ last.op = "contains" /\ last.ret
  /\ m_size >= 1
  /\ Occupied(m_data) = m_size

\* ------------------------------------------------------------------ C34
\* C34: duplicates are stored as a multiset.  A successful insert of an item
\* that is already contained takes one more slot of its candidate buckets
\* for its fingerprint and adds 1 to size(); a successful erase of an item
\* stored more than once leaves it contained; and while the item is the only
\* one ever inserted, after k successful inserts and j < k successful erases
\* exactly k - j slots hold its fingerprint, size() is k - j and
\* contains(item) is true.
C34_DuplicatesAreMultiset ==
  /\ [](\A x \in Items :
          (inserted = {x} /\ net_ok >= 1) =>
             /\ StoredInCandidates(m_data, x) = net_ok
             /\ m_size = net_ok
             /\ contains(x) = {TRUE})
  /\ [][ /\ (/\ Called("insert") /\ last'.ret
             /\ TRUE \in contains_on(m_data, last'.item)) =>
              /\ StoredInCandidates(m_data', last'.item)
                   = StoredInCandidates(m_data, last'.item) + 1
              /\ Occupied(m_data') = Occupied(m_data) + 1
              /\ m_size' = m_size + 1
         /\ (/\ Called("erase") /\ last'.ret
             /\ StoredInCandidates(m_data, last'.item) >= 2) =>
              /\ StoredInCandidates(m_data', last'.item)
                   = StoredInCandidates(m_data, last'.item) - 1
              /\ contains_on(m_data', last'.item) = {TRUE} ]_vars

\* an item inserted at least twice and nothing else, erased once, is still
\* stored
C34_Witness ==
  /\ last.op = "erase" /\ last.ret
  /\ inserted = {last.item}
  /\ net_ok >= 1
  /\ StoredInCandidates(m_data, last.item) = net_ok
  /\ contains(last.item) = {TRUE}

\* ------------------------------------------------------------------ C35
\* C35: a constructed filter has at least as many slots as its declared
\* capacity: for every capacity >= 1, bucket_count * bucket_size >= capacity.
C35_SlotsCoverCapacity ==
  (calc.op = "construct" /\ ~calc.filter.aborted /\ calc.capacity >= 1) =>
     calc.filter.m_bucket_count * m_bucket_size >= calc.filter.m_capacity

\* ------------------------------------------------------------------ C36
\* The codec on its own: into_bytes and from_bytes applied to linear values
\* and to byte sequences of 1..4 bytes.  Linear values stay below 2^31.
CodecLinears ==
  (0..MaxCodecLinear) \cup SampleLinears
    \cup {65536, 16777215, 16777216, 2147483647}
CodecBytes == {0, 1, 127, 128, 255}
CodecVectors ==
  UNION {{v \in [1..n -> CodecBytes] : n = 4 => v[4] < 128} : n \in 1..4}

\* linear fits into num_bytes bytes
FitsInBytes(linear, num_bytes) ==
  IF num_bytes >= 4 THEN TRUE ELSE linear < Pow2(8 * num_bytes)

\* into_bytes applied to a linear value, and from_bytes to its result
ProbeEncode(linear, num_bytes) ==
  /\ calc' = [op |-> "encode", linear |-> linear, num_bytes |-> num_bytes,
              vec |-> into_bytes(linear, num_bytes),
              back |-> from_bytes(into_bytes(linear, num_bytes))]
  /\ UNCHANGED << config, m_data, m_size, last, owed, inserted, net_ok, ops >>

\* from_bytes applied to a byte sequence, and into_bytes to its result
ProbeDecode(vec) ==
  /\ calc' = [op |-> "decode", vec |-> vec, linear |-> from_bytes(vec),
              again |-> into_bytes(from_bytes(vec), Len(vec))]
  /\ UNCHANGED << config, m_data, m_size, last, owed, inserted, net_ok, ops >>

\* one application of the codec per behaviour
NextCodec ==
  \/ \E linear \in CodecLinears, num_bytes \in 1..4 :
       /\ calc = NoCalc
       /\ FitsInBytes(linear, num_bytes)
       /\ ProbeEncode(linear, num_bytes)
  \/ \E vec \in CodecVectors : calc = NoCalc /\ ProbeDecode(vec)

SpecCodec == InitAlt /\ [][NextCodec]_vars

\* the value of a byte sequence read least significant byte first
RECURSIVE LittleEndianValue(_)
LittleEndianValue(vec) ==
  IF Len(vec) = 0 THEN 0
  ELSE vec[1] + 256 * LittleEndianValue(Tail(vec))

\* C36: the fingerprint codec round-trips.  For n in 1..4 and 0 <= x <
\* 2^(8n), into_bytes(x, n) is the n bytes of x least significant first and
\* from_bytes gives x back; for every n-byte sequence v, from_bytes(v) is
\* its little-endian value and into_bytes(from_bytes(v), n) is v.
C36_CodecRoundTrip ==
  /\ calc.op = "encode" =>
       /\ calc.back = calc.linear
       /\ Len(calc.vec) = calc.num_bytes
       /\ \A i \in 1..calc.num_bytes : calc.vec[i] \in 0..255
       /\ LittleEndianValue(calc.vec) = calc.linear
  /\ calc.op = "decode" =>
       /\ calc.again = calc.vec
       /\ calc.linear = LittleEndianValue(calc.vec)

\* a value that needs all four bytes has been encoded and decoded
C36_Witness ==
  /\ calc.op = "encode"
  /\ calc.num_bytes = 4
  /\ calc.linear >= Pow2(24)
  /\ calc.vec[4] # 0 /\ calc.vec[1] # calc.vec[4]
  /\ calc.back = calc.linear

====
